---- MODULE Spec2Model ----
(***************************************************************************)
(* Averigua: a class of static environment queries (src/Averigua.js).      *)
(*                                                                         *)
(* The host environment (which globals exist, navigator.userAgent, the     *)
(* installed fonts) is fixed at Init.  Every static method is one action:  *)
(* it reads the host, possibly changes the document body, and leaves its   *)
(* outcome (returned value or thrown exception), the number of             *)
(* console.error diagnostics it emitted and whether it called isBrowser()  *)
(* in the variables describing the last call.                              *)
(*                                                                         *)
(* Strings the code parses or builds are sequences of lexemes (keywords,   *)
(* digit runs, punctuation); the regular expressions and split/join are    *)
(* operators over these sequences.                                         *)
(***************************************************************************)
EXTENDS Integers, Sequences, FiniteSets, TLC

VARIABLES
  host,       \* the ambient globals: window, document, process, navigator.userAgent, fonts
  body,       \* children of document.body, in order
  op,         \* name of the method called last
  outcome,    \* "none" | "returned" | "threw"
  ret,        \* the JS value returned by the last call
  diag,       \* console.error diagnostics emitted by the last call
  consulted,  \* whether the last call invoked isBrowser()
  query,      \* the media query passed to window.matchMedia last
  read        \* the host properties the last call was answered with

vars == <<host, body, op, outcome, ret, diag, consulted, query, read>>

(***************************************************************************)
(* Bounds                                                                  *)
(***************************************************************************)
MaxTokens == 3   \* product tokens in a navigator.userAgent
NumFonts == 3    \* candidates taken from the head of fontList
MaxCalls == 2    \* fontSupport() calls per behaviour
MaxPlugins == 2  \* entries of navigator.plugins

(***************************************************************************)
(* JS values                                                               *)
(***************************************************************************)
Undefined == [type |-> "undefined"]
NoValue == [type |-> "none"]                    \* nothing was returned
Bool(b) == [type |-> "boolean", b |-> b]
Str(s) == [type |-> "string", s |-> s]          \* a literal or host string
Text(t) == [type |-> "string", chars |-> t]     \* a string built from lexemes
Num(n) == [type |-> "number", n |-> n]
Obj(o) == [type |-> "object", o |-> o]
Arr(a) == [type |-> "array", a |-> a]

(***************************************************************************)
(* Sequence helpers: String.prototype.split and Array.prototype.join       *)
(***************************************************************************)
RECURSIVE SplitFrom(_, _, _)
SplitFrom(s, sep, cur) ==
  IF s = <<>> THEN <<cur>>
  ELSE IF Head(s) = sep THEN <<cur>> \o SplitFrom(Tail(s), sep, <<>>)
  ELSE SplitFrom(Tail(s), sep, Append(cur, Head(s)))

Split(s, sep) == SplitFrom(s, sep, <<>>)

RECURSIVE Join(_, _)
Join(parts, sep) ==
  IF parts = <<>> THEN <<>>
  ELSE IF Len(parts) = 1 THEN parts[1]
  ELSE parts[1] \o sep \o Join(Tail(parts), sep)

RECURSIVE Flatten(_)
Flatten(parts) == IF parts = <<>> THEN <<>> ELSE Head(parts) \o Flatten(Tail(parts))

(***************************************************************************)
(* Call epilogues                                                          *)
(***************************************************************************)
Return(o, v, c) ==
  /\ op' = o /\ outcome' = "returned" /\ ret' = v /\ diag' = 0 /\ consulted' = c

Throw(o, c) ==
  /\ op' = o /\ outcome' = "threw" /\ ret' = NoValue /\ diag' = 0 /\ consulted' = c

\* return this._browserErr(): console.error(...) and its undefined result
_browserErr(o) ==
  /\ op' = o /\ outcome' = "returned" /\ ret' = Undefined /\ diag' = 1 /\ consulted' = TRUE

NoRead == [nothing |-> TRUE]

isBrowser == host.window /\ host.document

(***************************************************************************)
(* isNode / isBrowser                                                      *)
(***************************************************************************)
ProcessVersions == {Str("v18.0.0"), Str(""), Undefined}

isNode ==
  /\ IF host.process
       THEN \E v \in ProcessVersions :
              Return("isNode", v, FALSE) /\ read' = [version |-> v]
       ELSE Return("isNode", Bool(FALSE), FALSE) /\ read' = NoRead
  /\ UNCHANGED <<host, body, query>>

IsBrowser ==
  /\ Return("isBrowser", Bool(isBrowser), TRUE)
  /\ read' = NoRead
  /\ UNCHANGED <<host, body, query>>

(***************************************************************************)
(* navigator.userAgent as a sequence of lexemes.  A user agent is up to    *)
(* MaxTokens product tokens separated by single spaces.                    *)
(***************************************************************************)
UATokens ==
  { <<"Mozilla", "/", "5">>,
    <<"Trident", "/", "7">>,
    <<"rv", ":", "11", ".", "0">>,
    <<"rv", ":", "9">>,
    <<"Chrome", "/", "50">>,
    <<"chrome", "/", "49">>,
    <<"OPR", "/", "40">>,
    <<"Edge", "/", "18">>,
    <<"Safari", "/", "537">>,
    <<"Version", "/", "12">>,
    <<"MSIE", " ", "10">>,
    <<"iPhone">> }

UserAgents(n) ==
  { Join(ts, <<" ">>) : ts \in UNION { [1..k -> UATokens] : k \in 0..n } }

Digits == {"0", "5", "7", "9", "10", "11", "12", "18", "40", "49", "50", "537"}
Punctuation == {"/", " ", ":", "."}

IsDigits(l) == l \in Digits
IsWord(l) == l \notin Punctuation

\* the effect of the regular expressions' i flag on one lexeme
Lower(l) ==
  CASE l = "Mozilla" -> "mozilla"
    [] l = "Trident" -> "trident"
    [] l = "Chrome" -> "chrome"
    [] l = "OPR" -> "opr"
    [] l = "Edge" -> "edge"
    [] l = "Safari" -> "safari"
    [] l = "Version" -> "version"
    [] l = "MSIE" -> "msie"
    [] l = "iPhone" -> "iphone"
    [] OTHER -> l

\* \b before position i: start of input or a non-word lexeme
Boundary(ua, i) == i = 1 \/ ~IsWord(ua[i - 1])

At(ua, i) == IF i >= 1 /\ i <= Len(ua) THEN ua[i] ELSE "<end>"

RECURSIVE SkipSpaces(_, _)
SkipSpaces(ua, j) == IF At(ua, j) = " " THEN SkipSpaces(ua, j + 1) ELSE j

MobileSignatures ==
  {"android", "webos", "iphone", "ipad", "ipod", "blackberry", "bb", "playbook",
   "iemobile", "windows phone", "kindle", "silk", "opera mini"}

\* /Android|webOS|iPhone|...|Opera Mini/i.test(ua)
MobileTest(ua) == \E i \in 1..Len(ua) : Lower(ua[i]) \in MobileSignatures

isMobile ==
  /\ IF ~isBrowser THEN _browserErr("isMobile")
     ELSE Return("isMobile", Bool(MobileTest(host.userAgent)), TRUE)
  /\ read' = NoRead
  /\ UNCHANGED <<host, body, query>>

BrowserTokens == {"opera", "chrome", "safari", "firefox", "msie"}

\* /(opera|chrome|safari|firefox|msie|trident(?=\/))\/?\s*(\d+)/i at position i:
\* <<M[1], M[2]>>, or <<>> when it does not match there
BrowserMatchAt(ua, i) ==
  LET kw == Lower(ua[i])
      j == SkipSpaces(ua, IF At(ua, i + 1) = "/" THEN i + 2 ELSE i + 1)
  IN IF /\ \/ kw \in BrowserTokens
            \/ (kw = "trident" /\ At(ua, i + 1) = "/")
        /\ IsDigits(At(ua, j))
     THEN <<ua[i], ua[j]>> ELSE <<>>

RECURSIVE SkipSpaceOrColon(_, _)
SkipSpaceOrColon(ua, j) ==
  IF At(ua, j) \in {" ", ":"} THEN SkipSpaceOrColon(ua, j + 1) ELSE j

\* /\brv[ :]+(\d+)/ at position i: <<tem[1]>> or <<>>
RvMatchAt(ua, i) ==
  LET j == SkipSpaceOrColon(ua, i + 1)
  IN IF ua[i] = "rv" /\ Boundary(ua, i) /\ j > i + 1 /\ IsDigits(At(ua, j))
     THEN <<ua[j]>> ELSE <<>>

\* /\b(OPR|Edge)\/(\d+)/ at position i: <<tem[1], tem[2]>> or <<>>
OprEdgeMatchAt(ua, i) ==
  IF /\ ua[i] \in {"OPR", "Edge"} /\ Boundary(ua, i)
     /\ At(ua, i + 1) = "/" /\ IsDigits(At(ua, i + 2))
  THEN <<ua[i], ua[i + 2]>> ELSE <<>>

\* /version\/(\d+)/i at position i: <<tem[1]>> or <<>>
VersionMatchAt(ua, i) ==
  IF Lower(ua[i]) = "version" /\ At(ua, i + 1) = "/" /\ IsDigits(At(ua, i + 2))
  THEN <<ua[i + 2]>> ELSE <<>>

\* the pattern named by re, tried at position i
MatchAt(re, ua, i) ==
  CASE re = "browser" -> BrowserMatchAt(ua, i)
    [] re = "rv" -> RvMatchAt(ua, i)
    [] re = "opr|edge" -> OprEdgeMatchAt(ua, i)
    [] re = "version" -> VersionMatchAt(ua, i)

\* String.prototype.match / RegExp.prototype.exec: the leftmost match at or
\* after position from, <<>> when there is none
RECURSIVE FirstMatch(_, _, _)
FirstMatch(re, ua, from) ==
  IF from > Len(ua) THEN <<>>
  ELSE IF MatchAt(re, ua, from) # <<>> THEN MatchAt(re, ua, from)
  ELSE FirstMatch(re, ua, from + 1)

appName == "Netscape"
appVersion == "5.0 (X11)"

\* browserInfo() without the branch for Chrome-derived browsers
browserInfoOf_noChromeBranch(ua) ==
  LET M == FirstMatch("browser", ua, 1)
      rv == FirstMatch("rv", ua, 1)
      ver == FirstMatch("version", ua, 1)
      M2 == IF M # <<>> THEN M ELSE <<appName, appVersion, "-?">>
      M3 == IF ver # <<>> THEN <<M2[1], ver[1]>> ELSE M2
  IN IF M # <<>> /\ Lower(M[1]) = "trident"
       THEN Text(<<"IE ">> \o rv)
     ELSE Obj([name |-> Str(M3[1]), version |-> Str(M3[2])])

\* the value browserInfo() returns in a browser
browserInfoOf(ua) ==
  LET M == FirstMatch("browser", ua, 1)
      rv == FirstMatch("rv", ua, 1)
      oe == FirstMatch("opr|edge", ua, 1)
      ver == FirstMatch("version", ua, 1)
      M2 == IF M # <<>> THEN M ELSE <<appName, appVersion, "-?">>
      M3 == IF ver # <<>> THEN <<M2[1], ver[1]>> ELSE M2
  IN IF M # <<>> /\ Lower(M[1]) = "trident"
       THEN Text(<<"IE ">> \o rv)
     ELSE IF M # <<>> /\ M[1] = "Chrome" /\ oe # <<>>
       THEN Text(<<IF oe[1] = "OPR" THEN "Opera" ELSE oe[1], " ", oe[2]>>)
     ELSE Obj([name |-> Str(M3[1]), version |-> Str(M3[2])])

browserInfo ==
  /\ IF ~isBrowser THEN _browserErr("browserInfo")
     ELSE Return("browserInfo", browserInfoOf(host.userAgent), TRUE)
  /\ read' = NoRead
  /\ UNCHANGED <<host, body, query>>

(***************************************************************************)
(* hasWebGL / hasWebVR / hasMIDI / doNotTrack / orientation                *)
(***************************************************************************)
hasWebGL ==
  /\ IF ~isBrowser THEN _browserErr("hasWebGL") /\ read' = NoRead
     ELSE \E ctor \in BOOLEAN, ctx \in BOOLEAN :
            /\ Return("hasWebGL", Bool(ctor /\ ctx), TRUE)
            /\ read' = [WebGLRenderingContext |-> ctor, context |-> ctx]
  /\ UNCHANGED <<host, body, query>>

hasWebVR ==
  /\ IF ~isBrowser THEN _browserErr("hasWebVR") /\ read' = NoRead
     ELSE \E vr \in BOOLEAN :
            /\ Return("hasWebVR", Bool(vr), TRUE)
            /\ read' = [getVRDisplays |-> vr]
  /\ UNCHANGED <<host, body, query>>

hasMIDI ==
  /\ IF ~isBrowser THEN _browserErr("hasMIDI") /\ read' = NoRead
     ELSE \E midi \in BOOLEAN :
            /\ Return("hasMIDI", Bool(midi), TRUE)
            /\ read' = [requestMIDIAccess |-> midi]
  /\ UNCHANGED <<host, body, query>>

DoNotTrackValues == {Str("1"), Str("yes"), Str("0"), Str("unspecified"), Undefined}

doNotTrack ==
  /\ IF ~isBrowser THEN _browserErr("doNotTrack") /\ read' = NoRead
     ELSE \E dnt \in DoNotTrackValues :
            /\ Return("doNotTrack", Bool(dnt = Str("1") \/ dnt = Str("yes")), TRUE)
            /\ read' = [doNotTrack |-> dnt]
  /\ UNCHANGED <<host, body, query>>

\* window.orientation: absent, or an angle in degrees
Orientations == {Undefined} \cup {Num(a) : a \in {-90, 0, 90, 180}}

\* JS truthiness of an absent value or a number
Truthy(v) == v.type = "number" /\ v.n # 0

orientationOf(o) ==
  IF Truthy(o)
    THEN IF o = Num(-90) \/ o = Num(90) THEN Str("landscape") ELSE Str("portrait")
    ELSE Str("no-support")

orientation ==
  /\ IF ~isBrowser THEN _browserErr("orientation") /\ read' = NoRead
     ELSE \E o \in Orientations :
            /\ Return("orientation", orientationOf(o), TRUE)
            /\ read' = [orientation |-> o]
  /\ UNCHANGED <<host, body, query>>

(***************************************************************************)
(* hasTouch                                                                *)
(***************************************************************************)
\* ' -webkit- -moz- -o- -ms- '
PrefixString == <<" ", "-webkit-", " ", "-moz-", " ", "-o-", " ", "-ms-", " ">>

\* the prefix list without the empty string that closes it
prefixes_noTrailing == SubSeq(Split(PrefixString, " "), 1, 5)

prefixes == Split(PrefixString, " ")

\* ['(', prefixes.join('touch-enabled),('), 'heartz', ')'].join('')
touchQuery ==
  Flatten(<< <<"(">>, Join(prefixes, <<"touch-enabled", ")", ",", "(">>),
             <<"heartz">>, <<")">> >>)

MatchMedia == {"absent", "matches", "no match"}

hasTouch ==
  /\ IF ~isBrowser
       THEN _browserErr("hasTouch") /\ read' = NoRead /\ UNCHANGED query
       ELSE \E touchstart \in BOOLEAN, docTouch \in BOOLEAN, mm \in MatchMedia :
              /\ read' = [ontouchstart |-> touchstart, DocumentTouch |-> docTouch,
                          matchMedia |-> mm]
              /\ IF touchstart \/ docTouch
                   THEN Return("hasTouch", Bool(TRUE), TRUE) /\ UNCHANGED query
                 ELSE IF mm = "absent"
                   THEN Throw("hasTouch", TRUE) /\ UNCHANGED query
                 ELSE /\ Return("hasTouch", Bool(mm = "matches"), TRUE)
                      /\ query' = touchQuery
  /\ UNCHANGED <<host, body>>

(***************************************************************************)
(* gpuInfo / platformInfo                                                  *)
(***************************************************************************)
\* canvas.getContext('webgl'): null, a context, or a context that also
\* offers the WEBGL_debug_renderer_info extension
WebGLContexts == {"null", "masked", "unmasked"}

gpuInfoOf(gl) ==
  IF gl = "unmasked"
    THEN Obj([vendor |-> Str("UNMASKED_VENDOR_WEBGL"), renderer |-> Str("UNMASKED_RENDERER_WEBGL")])
    ELSE Obj([vendor |-> Str("VENDOR"), renderer |-> Str("RENDERER")])

\* no isBrowser() guard: `document` is dereferenced at once, and so is gl
gpuInfo ==
  /\ IF ~host.document
       THEN Throw("gpuInfo", FALSE) /\ read' = NoRead
       ELSE \E gl \in WebGLContexts :
              /\ read' = [webgl |-> gl]
              /\ IF gl = "null" THEN Throw("gpuInfo", FALSE)
                 ELSE Return("gpuInfo", gpuInfoOf(gl), FALSE)
  /\ UNCHANGED <<host, body, query>>

platformInfo ==
  /\ IF isBrowser
       THEN Return("platformInfo",
                   Obj([mobile |-> Bool(MobileTest(host.userAgent)),
                        browser |-> browserInfoOf(host.userAgent),
                        platform |-> Str("navigator.platform")]), TRUE)
     ELSE IF host.process
       THEN Return("platformInfo",
                   Obj([platform |-> Str("process.platform"), os |-> Str("os"),
                        env |-> Str("process.env")]), TRUE)
     ELSE Throw("platformInfo", TRUE)      \* require is not defined
  /\ read' = NoRead
  /\ UNCHANGED <<host, body, query>>

(***************************************************************************)
(* audioSupport / videoSupport                                             *)
(***************************************************************************)
CanPlayAnswers == {"", "maybe", "probably"}
AudioFormats == {"mp3", "vorbis", "wav", "aac"}
VideoFormats == {"webm", "h264", "theora"}

\* the answer stored without the comparison with ''
Normalize_passThrough(answer) == answer

\* x = canPlayType(...); if (x === '') x = 'no'
Normalize(answer) == IF answer = "" THEN "no" ELSE answer

audioSupportOf(canPlay, answers) ==
  IF canPlay
    THEN Obj([f \in AudioFormats |-> Normalize(answers[f])])
    ELSE Obj([f \in AudioFormats |-> "no"])

audioSupport ==
  /\ IF ~isBrowser THEN _browserErr("audioSupport") /\ read' = NoRead
     ELSE \E canPlay \in BOOLEAN, answers \in [AudioFormats -> CanPlayAnswers] :
            /\ Return("audioSupport", audioSupportOf(canPlay, answers), TRUE)
            /\ read' = [canPlayType |-> canPlay, answers |-> answers]
  /\ UNCHANGED <<host, body, query>>

videoSupportOf(canPlay, answers, poster, track) ==
  IF canPlay
    THEN Obj([f \in VideoFormats \cup {"poster", "captions"} |->
                IF f = "poster" THEN IF poster THEN "probably" ELSE "no"
                ELSE IF f = "captions" THEN IF track THEN "probably" ELSE "no"
                ELSE Normalize(answers[f])])
    ELSE Obj([f \in VideoFormats \cup {"poster", "captions"} |-> "no"])

videoSupport ==
  /\ IF ~isBrowser THEN _browserErr("videoSupport") /\ read' = NoRead
     ELSE \E canPlay \in BOOLEAN, answers \in [VideoFormats -> CanPlayAnswers],
             poster \in BOOLEAN, track \in BOOLEAN :
            /\ Return("videoSupport", videoSupportOf(canPlay, answers, poster, track), TRUE)
            /\ read' = [canPlayType |-> canPlay, answers |-> answers,
                        poster |-> poster, track |-> track]
  /\ UNCHANGED <<host, body, query>>

(***************************************************************************)
(* pluginSupport                                                           *)
(***************************************************************************)
SeqsUpTo(S, n) == UNION { [1..k -> S] : k \in 0..n }

MimeType(t, sfx) == [description |-> t, type |-> t, suffixes |-> sfx]

\* the plugins a host may register: with one, two or no MIME types
HostPlugins ==
  { [name |-> "PDF Viewer", description |-> "Portable Document Format",
     filename |-> "internal-pdf-viewer",
     mimeTypes |-> << MimeType("application/pdf", "pdf") >>],
    [name |-> "Shockwave Flash", description |-> "Shockwave Flash 32.0",
     filename |-> "libflashplayer.so",
     mimeTypes |-> << MimeType("application/x-shockwave-flash", "swf"),
                      MimeType("application/futuresplash", "spl") >>],
    [name |-> "Default Plug-in", description |-> "", filename |-> "default.so",
     mimeTypes |-> << >>] }

\* navigator.plugins: absent, or an array-like of plugins
PluginLists == {Undefined} \cup { Arr(l) : l \in SeqsUpTo(HostPlugins, MaxPlugins) }

RECURSIVE mimeEntries(_, _)
mimeEntries(plugin, j) ==
  IF j > Len(plugin.mimeTypes) THEN <<>>
  ELSE << [description |-> plugin.mimeTypes[j].description,
           type |-> plugin.mimeTypes[j].type,
           suffixes |-> plugin.mimeTypes[j].suffixes] >> \o mimeEntries(plugin, j + 1)

RECURSIVE pluginEntries(_, _)
pluginEntries(list, i) ==
  IF i > Len(list) THEN <<>>
  ELSE << [name |-> list[i].name, description |-> list[i].description,
           filename |-> list[i].filename, array |-> mimeEntries(list[i], 1)] >>
       \o pluginEntries(list, i + 1)

pluginSupport ==
  /\ IF ~isBrowser THEN _browserErr("pluginSupport") /\ read' = NoRead
     ELSE \E plugins \in PluginLists :
            /\ read' = [plugins |-> plugins]
            /\ IF plugins = Undefined
                 THEN Throw("pluginSupport", TRUE)     \* navigator.plugins.length
                 ELSE Return("pluginSupport", Arr(pluginEntries(plugins.a, 1)), TRUE)
  /\ UNCHANGED <<host, body, query>>

(***************************************************************************)
(* storageSupport                                                          *)
(***************************************************************************)
Stores == {"localStorage", "sessionStorage", "indexedDB"}

\* what reading window[store] does
Accessors == {"absent", "present", "throws"}

storageSupport ==
  /\ IF ~isBrowser THEN _browserErr("storageSupport") /\ read' = NoRead
     ELSE \E access \in [Stores -> Accessors] :
            /\ read' = [access |-> access]
            /\ IF \E st \in Stores : access[st] = "throws"
                 THEN Throw("storageSupport", TRUE)    \* no try/catch around the reads
                 ELSE Return("storageSupport",
                             Obj([st \in Stores |-> access[st] = "present"]), TRUE)
  /\ UNCHANGED <<host, body, query>>

(***************************************************************************)
(* fontSupport                                                             *)
(***************************************************************************)
baseFonts == <<"monospace", "sans-serif", "serif">>

fontList ==
  <<
    "Andale Mono", "Arial", "Arial Black", "Arial Hebrew", "Arial MT", "Arial Narrow",
    "Arial Rounded MT Bold", "Arial Unicode MS", "Bitstream Vera Sans Mono", "Book Antiqua",
    "Bookman Old Style", "Calibri", "Cambria", "Cambria Math", "Century", "Century Gothic",
    "Century Schoolbook", "Comic Sans", "Comic Sans MS", "Consolas", "Courier", "Courier New",
    "Geneva", "Georgia", "Helvetica", "Helvetica Neue", "Impact", "Lucida Bright",
    "Lucida Calligraphy", "Lucida Console", "Lucida Fax", "LUCIDA GRANDE", "Lucida Handwriting",
    "Lucida Sans", "Lucida Sans Typewriter", "Lucida Sans Unicode", "Microsoft Sans Serif",
    "Monaco", "Monotype Corsiva", "MS Gothic", "MS Outlook", "MS PGothic",
    "MS Reference Sans Serif", "MS Sans Serif", "MS Serif", "MYRIAD", "MYRIAD PRO", "Palatino",
    "Palatino Linotype", "Segoe Print", "Segoe Script", "Segoe UI", "Segoe UI Light",
    "Segoe UI Semibold", "Segoe UI Symbol", "Tahoma", "Times", "Times New Roman",
    "Times New Roman PS", "Trebuchet MS", "Verdana", "Wingdings", "Wingdings 2", "Wingdings 3",
    "Abadi MT Condensed Light", "Academy Engraved LET", "ADOBE CASLON PRO", "Adobe Garamond",
    "ADOBE GARAMOND PRO", "Agency FB", "Aharoni", "Albertus Extra Bold", "Albertus Medium",
    "Algerian", "Amazone BT", "American Typewriter", "American Typewriter Condensed",
    "AmerType Md BT", "Andalus", "Angsana New", "AngsanaUPC", "Antique Olive", "Aparajita",
    "Apple Chancery", "Apple Color Emoji", "Apple SD Gothic Neo", "Arabic Typesetting", "ARCHER",
    "ARNO PRO", "Arrus BT", "Aurora Cn BT", "AvantGarde Bk BT", "AvantGarde Md BT", "AVENIR",
    "Ayuthaya", "Bandy", "Bangla Sangam MN", "Bank Gothic", "BankGothic Md BT", "Baskerville",
    "Baskerville Old Face", "Batang", "BatangChe", "Bauer Bodoni", "Bauhaus 93", "Bazooka",
    "Bell MT", "Bembo", "Benguiat Bk BT", "Berlin Sans FB", "Berlin Sans FB Demi",
    "Bernard MT Condensed", "BernhardFashion BT", "BernhardMod BT", "Big Caslon", "BinnerD",
    "Blackadder ITC", "BlairMdITC TT", "Bodoni 72", "Bodoni 72 Oldstyle", "Bodoni 72 Smallcaps",
    "Bodoni MT", "Bodoni MT Black", "Bodoni MT Condensed", "Bodoni MT Poster Compressed",
    "Bookshelf Symbol 7", "Boulder", "Bradley Hand", "Bradley Hand ITC", "Bremen Bd BT",
    "Britannic Bold", "Broadway", "Browallia New", "BrowalliaUPC", "Brush Script MT",
    "Californian FB", "Calisto MT", "Calligrapher", "Candara", "CaslonOpnface BT", "Castellar",
    "Centaur", "Cezanne", "CG Omega", "CG Times", "Chalkboard", "Chalkboard SE", "Chalkduster",
    "Charlesworth", "Charter Bd BT", "Charter BT", "Chaucer", "ChelthmITC Bk BT", "Chiller",
    "Clarendon", "Clarendon Condensed", "CloisterBlack BT", "Cochin", "Colonna MT", "Constantia",
    "Cooper Black", "Copperplate", "Copperplate Gothic", "Copperplate Gothic Bold",
    "Copperplate Gothic Light", "CopperplGoth Bd BT", "Corbel", "Cordia New", "CordiaUPC",
    "Cornerstone", "Coronet", "Cuckoo", "Curlz MT", "DaunPenh", "Dauphin", "David", "DB LCD Temp",
    "DELICIOUS", "Denmark", "DFKai-SB", "Didot", "DilleniaUPC", "DIN", "DokChampa", "Dotum",
    "DotumChe", "Ebrima", "Edwardian Script ITC", "Elephant", "English 111 Vivace BT",
    "Engravers MT", "EngraversGothic BT", "Eras Bold ITC", "Eras Demi ITC", "Eras Light ITC",
    "Eras Medium ITC", "EucrosiaUPC", "Euphemia", "Euphemia UCAS", "EUROSTILE", "Exotc350 Bd BT",
    "FangSong", "Felix Titling", "Fixedsys", "FONTIN", "Footlight MT Light", "Forte", "FrankRuehl",
    "Fransiscan", "Freefrm721 Blk BT", "FreesiaUPC", "Freestyle Script", "French Script MT",
    "FrnkGothITC Bk BT", "Fruitger", "FRUTIGER", "Futura", "Futura Bk BT", "Futura Lt BT",
    "Futura Md BT", "Futura ZBlk BT", "FuturaBlack BT", "Gabriola", "Galliard BT", "Gautami",
    "Geeza Pro", "Geometr231 BT", "Geometr231 Hv BT", "Geometr231 Lt BT", "GeoSlab 703 Lt BT",
    "GeoSlab 703 XBd BT", "Gigi", "Gill Sans", "Gill Sans MT", "Gill Sans MT Condensed",
    "Gill Sans MT Ext Condensed Bold", "Gill Sans Ultra Bold", "Gill Sans Ultra Bold Condensed",
    "Gisha", "Gloucester MT Extra Condensed", "GOTHAM", "GOTHAM BOLD", "Goudy Old Style",
    "Goudy Stout", "GoudyHandtooled BT", "GoudyOLSt BT", "Gujarati Sangam MN", "Gulim", "GulimChe",
    "Gungsuh", "GungsuhChe", "Gurmukhi MN", "Haettenschweiler", "Harlow Solid Italic", "Harrington",
    "Heather", "Heiti SC", "Heiti TC", "HELV", "Herald", "High Tower Text",
    "Hiragino Kaku Gothic ProN", "Hiragino Mincho ProN", "Hoefler Text", "Humanst 521 Cn BT",
    "Humanst521 BT", "Humanst521 Lt BT", "Imprint MT Shadow", "Incised901 Bd BT", "Incised901 BT",
    "Incised901 Lt BT", "INCONSOLATA", "Informal Roman", "Informal011 BT", "INTERSTATE", "IrisUPC",
    "Iskoola Pota", "JasmineUPC", "Jazz LET", "Jenson", "Jester", "Jokerman", "Juice ITC",
    "Kabel Bk BT", "Kabel Ult BT", "Kailasa", "KaiTi", "Kalinga", "Kannada Sangam MN", "Kartika",
    "Kaufmann Bd BT", "Kaufmann BT", "Khmer UI", "KodchiangUPC", "Kokila", "Korinna BT",
    "Kristen ITC", "Krungthep", "Kunstler Script", "Lao UI", "Latha", "Leelawadee", "Letter Gothic",
    "Levenim MT", "LilyUPC", "Lithograph", "Lithograph Light", "Long Island", "Lydian BT",
    "Magneto", "Maiandra GD", "Malayalam Sangam MN", "Malgun Gothic", "Mangal", "Marigold",
    "Marion", "Marker Felt", "Market", "Marlett", "Matisse ITC", "Matura MT Script Capitals",
    "Meiryo", "Meiryo UI", "Microsoft Himalaya", "Microsoft JhengHei", "Microsoft New Tai Lue",
    "Microsoft PhagsPa", "Microsoft Tai Le", "Microsoft Uighur", "Microsoft YaHei",
    "Microsoft Yi Baiti", "MingLiU", "MingLiU_HKSCS", "MingLiU_HKSCS-ExtB", "MingLiU-ExtB",
    "Minion", "Minion Pro", "Miriam", "Miriam Fixed", "Mistral", "Modern", "Modern No. 20",
    "Mona Lisa Solid ITC TT", "Mongolian Baiti", "MONO", "MoolBoran", "Mrs Eaves", "MS LineDraw",
    "MS Mincho", "MS PMincho", "MS Reference Specialty", "MS UI Gothic", "MT Extra", "MUSEO",
    "MV Boli", "Nadeem", "Narkisim", "NEVIS", "News Gothic", "News GothicMT", "NewsGoth BT",
    "Niagara Engraved", "Niagara Solid", "Noteworthy", "NSimSun", "Nyala", "OCR A Extended",
    "Old Century", "Old English Text MT", "Onyx", "Onyx BT", "OPTIMA", "Oriya Sangam MN", "OSAKA",
    "OzHandicraft BT", "Palace Script MT", "Papyrus", "Parchment", "Party LET", "Pegasus",
    "Perpetua", "Perpetua Titling MT", "PetitaBold", "Pickwick", "Plantagenet Cherokee", "Playbill",
    "PMingLiU", "PMingLiU-ExtB", "Poor Richard", "Poster", "PosterBodoni BT", "PRINCETOWN LET",
    "Pristina", "PTBarnum BT", "Pythagoras", "Raavi", "Rage Italic", "Ravie", "Ribbon131 Bd BT",
    "Rockwell", "Rockwell Condensed", "Rockwell Extra Bold", "Rod", "Roman", "Sakkal Majalla",
    "Santa Fe LET", "Savoye LET", "Sceptre", "Script", "Script MT Bold", "SCRIPTINA", "Serifa",
    "Serifa BT", "Serifa Th BT", "ShelleyVolante BT", "Sherwood", "Shonar Bangla",
    "Showcard Gothic", "Shruti", "Signboard", "SILKSCREEN", "SimHei", "Simplified Arabic",
    "Simplified Arabic Fixed", "SimSun", "SimSun-ExtB", "Sinhala Sangam MN", "Sketch Rockwell",
    "Skia", "Small Fonts", "Snap ITC", "Snell Roundhand", "Socket", "Souvenir Lt BT",
    "Staccato222 BT", "Steamer", "Stencil", "Storybook", "Styllo", "Subway", "Swis721 BlkEx BT",
    "Swiss911 XCm BT", "Sylfaen", "Synchro LET", "System", "Tamil Sangam MN", "Technical",
    "Teletype", "Telugu Sangam MN", "Tempus Sans ITC", "Terminal", "Thonburi", "Traditional Arabic",
    "Trajan", "TRAJAN PRO", "Tristan", "Tubular", "Tunga", "Tw Cen MT", "Tw Cen MT Condensed",
    "Tw Cen MT Condensed Extra Bold", "TypoUpright BT", "Unicorn", "Univers",
    "Univers CE 55 Medium", "Univers Condensed", "Utsaah", "Vagabond", "Vani", "Vijaya",
    "Viner Hand ITC", "VisualUI", "Vivaldi", "Vladimir Script", "Vrinda", "Westminster", "WHITNEY",
    "Wide Latin", "ZapfEllipt BT", "ZapfHumnst BT", "ZapfHumnst Dm BT", "Zapfino",
    "Zurich BlkEx BT", "Zurich Ex BT", "ZWAdobeF"
  >>

\* the candidates a host is asked about: the head of fontList
candidates == SubSeq(fontList, 1, NumFonts)

Range(f) == { f[i] : i \in DOMAIN f }

\* rendered <<width, height>> of the test string in one font
GlyphBoxes == { <<10, 7>>, <<12, 7>>, <<10, 8>> }

\* what the host renders: every generic family, and the installed candidates
\* (<<>> for a candidate that is not installed)
FontHosts ==
  { [generic |-> g, installed |-> f] :
      g \in [Range(baseFonts) -> GlyphBoxes],
      f \in [Range(candidates) -> GlyphBoxes \cup {<<>>}] }

\* the box of the first family of a font-family stack the host can render
RECURSIVE Rendered(_)
Rendered(stack) ==
  IF Head(stack) \in Range(baseFonts) THEN host.fonts.generic[Head(stack)]
  ELSE IF host.fonts.installed[Head(stack)] # <<>> THEN host.fonts.installed[Head(stack)]
  ELSE Rendered(Tail(stack))

\* offsetSize when a container only lays out while no earlier probe
\* container is left in the body
offsetSize_firstProbeOnly(span, div, dom) ==
  IF div \in Range(dom) /\ \A n \in Range(dom) : n.tag = "div" => n.id + 1 >= div.id
    THEN Rendered(span.fontFamily) ELSE <<0, 0>>

\* <<offsetWidth, offsetHeight>> of a span of container div, given the body's
\* children: an element outside the document has no layout box
offsetSize(span, div, dom) ==
  IF div \in Range(dom) THEN Rendered(span.fontFamily) ELSE <<0, 0>>

createSpan(family) == [tag |-> "span", fontFamily |-> family]

createSpanWithFonts(fontToDetect, baseFont) == createSpan(<<fontToDetect, baseFont>>)

initializeBaseFontsSpans == [idx \in 1..Len(baseFonts) |-> createSpan(<<baseFonts[idx]>>)]

initializeFontsSpans ==
  [c \in Range(candidates) |->
     [j \in 1..Len(baseFonts) |-> createSpanWithFonts(c, baseFonts[j])]]

RECURSIVE fontsDivChildren(_)
fontsDivChildren(i) ==
  IF i > Len(candidates) THEN <<>>
  ELSE initializeFontsSpans[candidates[i]] \o fontsDivChildren(i + 1)

\* the loop of isFontAvailable from index i on
RECURSIVE isFontAvailableFrom(_, _, _, _, _, _)
isFontAvailableFrom(fontSpans, i, div, dom, defaultWidth, defaultHeight) ==
  IF i > Len(baseFonts) THEN FALSE
  ELSE LET d == \/ offsetSize(fontSpans[i], div, dom)[1] # defaultWidth[baseFonts[i]]
                \/ offsetSize(fontSpans[i], div, dom)[2] # defaultHeight[baseFonts[i]]
       IN IF d THEN d
          ELSE isFontAvailableFrom(fontSpans, i + 1, div, dom, defaultWidth, defaultHeight)

\* isFontAvailable comparing the widths only
isFontAvailable_widthOnly(fontSpans, div, dom, defaultWidth, defaultHeight) ==
  \E i \in 1..Len(baseFonts) :
    offsetSize(fontSpans[i], div, dom)[1] # defaultWidth[baseFonts[i]]

isFontAvailable(fontSpans, div, dom, defaultWidth, defaultHeight) ==
  isFontAvailableFrom(fontSpans, 1, div, dom, defaultWidth, defaultHeight)

\* the loop filling `available` from index i on
RECURSIVE availableFrom(_, _, _, _, _)
availableFrom(i, div, dom, defaultWidth, defaultHeight) ==
  IF i > Len(candidates) THEN <<>>
  ELSE (IF isFontAvailable(initializeFontsSpans[candidates[i]], div, dom,
                           defaultWidth, defaultHeight)
          THEN <<candidates[i]>> ELSE <<>>)
       \o availableFrom(i + 1, div, dom, defaultWidth, defaultHeight)

\* the page's own content of document.body
HostBody == << [tag |-> "script", id |-> 1, children |-> <<>>] >>

\* no isBrowser() guard: `document` is dereferenced at once
fontSupport ==
  /\ IF ~host.document
       THEN Throw("fontSupport", FALSE) /\ UNCHANGED body
       ELSE /\ Len(body) < Len(HostBody) + 2 * MaxCalls
            /\ LET baseFontsDiv == [tag |-> "div", id |-> Len(body) + 1,
                                    children |-> initializeBaseFontsSpans]
                   fontsDiv == [tag |-> "div", id |-> Len(body) + 2,
                                children |-> fontsDivChildren(1)]
                   dom1 == Append(body, baseFontsDiv)
                   defaultWidth ==
                     [b \in Range(baseFonts) |->
                        offsetSize(createSpan(<<b>>), baseFontsDiv, dom1)[1]]
                   defaultHeight ==
                     [b \in Range(baseFonts) |->
                        offsetSize(createSpan(<<b>>), baseFontsDiv, dom1)[2]]
                   dom2 == Append(dom1, fontsDiv)
               IN /\ body' = dom2
                  /\ Return("fontSupport",
                            Arr(availableFrom(1, fontsDiv, dom2, defaultWidth, defaultHeight)),
                            FALSE)
  /\ read' = NoRead
  /\ UNCHANGED <<host, query>>

(***************************************************************************)
(* Specifications                                                          *)
(***************************************************************************)
DesktopChrome ==
  Join(<< <<"Mozilla", "/", "5">>, <<"Chrome", "/", "50">>, <<"Safari", "/", "537">> >>, <<" ">>)

\* a desktop Chrome, Internet Explorer 11 and an iPhone
SampleUserAgents ==
  { DesktopChrome,
    Join(<< <<"Mozilla", "/", "5">>, <<"Trident", "/", "7">>, <<"rv", ":", "11", ".", "0">> >>, <<" ">>),
    Join(<< <<"Mozilla", "/", "5">>, <<"iPhone">>, <<"Version", "/", "12">> >>, <<" ">>) }

\* only the first candidate is installed, wider than every generic family
SampleFontHosts ==
  { fh \in FontHosts :
      /\ \A b \in Range(baseFonts) : fh.generic[b] = <<10, 7>>
      /\ \A c \in Range(candidates) :
           fh.installed[c] = IF c = candidates[1] THEN <<12, 7>> ELSE <<>> }

\* which of the globals window, document and process exist
Globals == [window : BOOLEAN, document : BOOLEAN, process : BOOLEAN]
BrowserGlobals == [window |-> TRUE, document |-> TRUE, process |-> FALSE]
NodeGlobals == [window |-> FALSE, document |-> FALSE, process |-> TRUE]

Hosts(globals, uas, fonts) ==
  { [window |-> g.window, document |-> g.document, process |-> g.process,
     userAgent |-> ua, fonts |-> fh] :
      g \in globals, ua \in uas, fh \in fonts }

InitIn(hosts) ==
  /\ host \in hosts
  /\ body = IF host.document THEN HostBody ELSE <<>>
  /\ op = "none"
  /\ outcome = "none"
  /\ ret = NoValue
  /\ diag = 0
  /\ consulted = FALSE
  /\ query = <<>>
  /\ read = NoRead

\* every method, in every combination of globals
Init == InitIn(Hosts(Globals, SampleUserAgents, SampleFontHosts))

Next ==
  \/ isNode
  \/ IsBrowser
  \/ isMobile
  \/ hasWebGL
  \/ hasWebVR
  \/ hasMIDI
  \/ hasTouch
  \/ doNotTrack
  \/ orientation
  \/ gpuInfo
  \/ browserInfo
  \/ platformInfo
  \/ audioSupport
  \/ videoSupport
  \/ pluginSupport
  \/ storageSupport
  \/ fontSupport

Spec == Init /\ [][Next]_vars

\* the user-agent parsers over every user agent, in a browser
InitUA == InitIn(Hosts({BrowserGlobals}, UserAgents(MaxTokens), SampleFontHosts))

NextUA == isMobile \/ browserInfo \/ platformInfo

SpecUA == InitUA /\ [][NextUA]_vars

\* the font probe over every set of installed fonts, in a browser and in Node
InitFont == InitIn(Hosts({BrowserGlobals, NodeGlobals}, {DesktopChrome}, FontHosts))

NextFont == fontSupport

SpecFont == InitFont /\ [][NextFont]_vars

(***************************************************************************)
(* Claims                                                                  *)
(***************************************************************************)
BrowserQueries ==
  {"isMobile", "hasWebGL", "hasWebVR", "hasMIDI", "hasTouch", "doNotTrack",
   "orientation", "gpuInfo", "browserInfo", "audioSupport", "videoSupport",
   "pluginSupport", "storageSupport", "fontSupport"}

CapabilityPredicates ==
  {"isNode", "isBrowser", "isMobile", "hasWebGL", "hasWebVR", "hasMIDI",
   "hasTouch", "doNotTrack"}

\* C1: outside a browser (window or document absent) every query that reads
\* browser globals calls isBrowser(), emits exactly one diagnostic and returns
\* the "unavailable" value (undefined) instead of throwing.
C1_SoftFailOutsideBrowser ==
  (op \in BrowserQueries /\ ~isBrowser) =>
    /\ outcome = "returned"
    /\ consulted
    /\ diag = 1
    /\ ret = Undefined

\* C2: in every host a capability predicate returns a boolean, or a defined
\* value that cannot be mistaken for false; it never returns undefined.
C2_PredicateNeverUndefined ==
  (op \in CapabilityPredicates /\ outcome = "returned") =>
    \/ ret.type = "boolean"
    \/ (ret.type # "undefined" /\ ret # Bool(FALSE))

\* C3: in a browser orientation() is "landscape" for the angles -90 and 90,
\* "portrait" for every other angle that is present (0 and 180 included) and
\* "no-support" only when window.orientation is absent.
C3_OrientationByAngle ==
  (op = "orientation" /\ isBrowser) =>
    /\ outcome = "returned"
    /\ ret = IF read.orientation = Undefined THEN Str("no-support")
             ELSE IF read.orientation.n \in {-90, 90} THEN Str("landscape")
             ELSE Str("portrait")

\* C4: in a browser storageSupport() returns three booleans, each true iff its
\* accessor exists and does not throw; an accessor that throws gives false for
\* its own field only, and nothing propagates to the caller.
C4_StorageThrowIsFalse ==
  (op = "storageSupport" /\ isBrowser) =>
    /\ outcome = "returned"
    /\ ret = Obj([st \in Stores |-> read.access[st] = "present"])

SupportLevels == {"no", "maybe", "probably"}

\* C5: in a browser every field of audioSupport() and videoSupport() is one of
\* "no", "maybe", "probably", with or without canPlayType; a codec answer of ""
\* becomes "no" and any other answer is returned unchanged.
C5_MediaSupportLevels ==
  /\ (op = "audioSupport" /\ isBrowser) =>
       /\ outcome = "returned"
       /\ DOMAIN ret.o = AudioFormats
       /\ \A f \in AudioFormats :
            /\ ret.o[f] \in SupportLevels
            /\ read.canPlayType =>
                 ret.o[f] = IF read.answers[f] = "" THEN "no" ELSE read.answers[f]
  /\ (op = "videoSupport" /\ isBrowser) =>
       /\ outcome = "returned"
       /\ DOMAIN ret.o = VideoFormats \cup {"poster", "captions"}
       /\ \A f \in DOMAIN ret.o : ret.o[f] \in SupportLevels
       /\ \A f \in VideoFormats :
            read.canPlayType =>
              ret.o[f] = IF read.answers[f] = "" THEN "no" ELSE read.answers[f]

\* C5 witness: a host whose audio element answers "" for mp3 and "maybe" for wav
C5_Witness ==
  /\ op = "audioSupport" /\ isBrowser /\ outcome = "returned"
  /\ read.canPlayType
  /\ read.answers["mp3"] = "" /\ ret.o["mp3"] = "no"
  /\ read.answers["wav"] = "maybe" /\ ret.o["wav"] = "maybe"

VendorPrefixes == << <<>>, <<"-webkit-">>, <<"-moz-">>, <<"-o-">>, <<"-ms-">> >>

\* "(" prefix "touch-enabled" ")"
TouchClause(prefix) == <<"(">> \o prefix \o <<"touch-enabled", ")">>

PrefixClauses == [i \in 1..Len(VendorPrefixes) |-> TouchClause(VendorPrefixes[i])]

\* C6 as stated: the query hasTouch() passes to matchMedia is exactly five
\* comma-joined clauses, "(" prefix "touch-enabled" ")" for each vendor prefix,
\* and no other clause.
C6_ExactlyFiveClauses ==
  query # <<>> => Split(query, ",") = PrefixClauses

\* C6 amended: the query hasTouch() passes to matchMedia is exactly six
\* comma-joined clauses: the five vendor-prefixed touch-enabled clauses in
\* prefix order, followed by the closing clause "(heartz)".
C6_FiveClausesThenHeartz ==
  query # <<>> => Split(query, ",") = PrefixClauses \o << <<"(", "heartz", ")">> >>

\* C6 witness: hasTouch() fell through to matchMedia and returned its answer
C6_Witness ==
  /\ op = "hasTouch" /\ outcome = "returned" /\ isBrowser
  /\ ~read.ontouchstart /\ ~read.DocumentTouch
  /\ query = touchQuery

\* positions of the user agent where the patterns of browserInfo() match
BrowserTokenAt(ua, i) == BrowserMatchAt(ua, i) # <<>>
FirstBrowserToken(ua, i) ==
  BrowserTokenAt(ua, i) /\ \A k \in 1..(i - 1) : ~BrowserTokenAt(ua, k)
FirstIs(ua, names) ==
  \E i \in 1..Len(ua) : FirstBrowserToken(ua, i) /\ ua[i] \in names
RvTokens(ua) == { i \in 1..Len(ua) : RvMatchAt(ua, i) # <<>> }
OprEdgeTokens(ua) == { i \in 1..Len(ua) : OprEdgeMatchAt(ua, i) # <<>> }
Relabel(name) == IF name = "OPR" THEN "Opera" ELSE name
IsNameVersionRecord(v) == v.type = "object" /\ DOMAIN v.o = {"name", "version"}

C8_PluginDescriptors ==
  (op = "pluginSupport" /\ isBrowser) =>
    /\ outcome = "returned"
    /\ ret.type = "array"
    /\ LET list == IF read.plugins = Undefined THEN <<>> ELSE read.plugins.a
       IN /\ Len(ret.a) = Len(list)
          /\ \A i \in 1..Len(list) :
               /\ ret.a[i].name = list[i].name
               /\ Len(ret.a[i].array) = Len(list[i].mimeTypes)
               /\ \A j \in 1..Len(list[i].mimeTypes) :
                    ret.a[i].array[j].type = list[i].mimeTypes[j].type

\* C9: fontSupport() leaves document.body as it found it: after any number of
\* calls the body's children are those it had before the first call.
C9_BodyUnchanged ==
  host.document => body = HostBody

\* whether the host renders '<candidate>',<baseline> differently from <baseline>
DiffersFrom(c, b) ==
  \/ Rendered(<<c, b>>)[1] # Rendered(<<b>>)[1]
  \/ Rendered(<<c, b>>)[2] # Rendered(<<b>>)[2]

JudgedAvailable(c) == \E b \in Range(baseFonts) : DiffersFrom(c, b)

\* C10: fontSupport() returns exactly the candidates whose width or height,
\* with at least one of the three baselines as fallback, differs from that
\* baseline's own; in reference-list order, without duplicates, and with no
\* name from outside the list.
C10_AvailableFonts ==
  (op = "fontSupport" /\ outcome = "returned") =>
    /\ ret = Arr(SelectSeq(candidates, JudgedAvailable))
    /\ Range(ret.a) \subseteq Range(fontList)
    /\ \A i, j \in 1..Len(ret.a) : i < j => ret.a[i] # ret.a[j]
    /\ \A i, j \in 1..Len(ret.a) :
         i < j => \E m, n \in 1..Len(fontList) :
                    m < n /\ fontList[m] = ret.a[i] /\ fontList[n] = ret.a[j]

\* C10 witness: a reported font whose box equals the first baseline's (so a
\* later baseline decided), next to a candidate that is not reported
C10_Witness ==
  /\ op = "fontSupport" /\ outcome = "returned"
  /\ Len(ret.a) > 0 /\ Len(ret.a) < Len(candidates)
  /\ \E c \in Range(ret.a) : host.fonts.installed[c] = host.fonts.generic[baseFonts[1]]


====
